---- MODULE Spec2Model ----
\* Model of the two dynamic-programming solvers of the repository:
\*   src/dynamic_programming/integer_partition.py  (integer_partition)
\*   src/dynamic_programming/subset_sum.py         (subset_sum)
\* Each function is a state machine whose steps are the statements of the
\* function, one action per statement group, one loop iteration per step.
\* Python lists are sequences shifted by one (Python s[j] is s[j+1] here);
\* numpy tables are functions over the cells <<row, column>>.
EXTENDS Integers, Sequences, FiniteSets

\* ---------------------------------------------------------------- bounds
MaxN == 3        \* longest input sequence
MaxVal == 3      \* largest element of an input sequence
MaxNeg == 1      \* elements of subset_sum's input go down to -MaxNeg
MaxK == 6        \* largest K
MaxNegK == 2     \* K goes down to -MaxNegK

VARIABLES
    arg,         \* the argument S as the caller passed it (never assigned)
    S,           \* the local S (padded by integer_partition, line 21)
    K,           \* the argument K
    N,           \* N = len(S)
    M,           \* the cost / feasibility table
    dividers,    \* integer_partition's divider table
    traceback,   \* subset_sum's traceback table
    n, k,        \* loop and traceback indices
    partition,   \* integer_partition's result list
    ranges,      \* for each entry of partition, the slice <<first, last>> it was cut from
    subset,      \* subset_sum's result list
    ret,         \* what the call returned: "" (nothing yet), "partition", "subset", "None"
    pc,          \* position in the function
    err,         \* the exception that ended the call, "" if none
    written,     \* table cells assigned so far (after allocation)
    zeroReads    \* integer_partition: cells with n = 0 or k = 0 that the recurrence
                 \* or the traceback has read

vars == <<arg, S, K, N, M, dividers, traceback, n, k, partition, ranges,
          subset, ret, pc, err, written, zeroReads>>

\* ------------------------------------------------------- Python / numpy
\* Python's s[j] on a list.
At(s, j) == s[j + 1]

\* Python's s[a:b] on a list, for a, b >= 0: the slice is clamped to the list.
Slice(s, a, b) ==
    LET hi == IF b < Len(s) THEN b ELSE Len(s)
        len == IF hi > a THEN hi - a ELSE 0
    IN  [j \in 1..len |-> s[a + j]]

RECURSIVE SumSeq(_)
\* sum(s) / np.sum(s); the sum of the empty list is 0.
SumSeq(s) == IF s = <<>> THEN 0 ELSE s[1] + SumSeq(Tail(s))

\* np.cumsum(s)[j]
CumSum(s, j) == SumSeq(Slice(s, 0, j + 1))

\* np.zeros((rows, cols)): the cells of a fresh table.
Cells(rows, cols) == (0..(rows - 1)) \X (0..(cols - 1))

\* A numpy index j on an axis of the given size: negative indices count from
\* the end, anything else outside the axis is an IndexError (-1 here).
NpIndex(j, size) ==
    IF 0 <= j /\ j < size THEN j
    ELSE IF j < 0 /\ j >= -size THEN j + size
    ELSE -1

\* The cell a table access t[a, b] touches, or <<-1, -1>> for an IndexError.
NpCell(a, b, rows, cols) ==
    IF NpIndex(a, rows) = -1 \/ NpIndex(b, cols) = -1 THEN <<-1, -1>>
    ELSE <<NpIndex(a, rows), NpIndex(b, cols)>>

Max2(a, b) == IF a >= b THEN a ELSE b

\* min(costs)
MinOf(costs) == CHOOSE c \in {costs[j] : j \in DOMAIN costs} :
                    \A j \in DOMAIN costs : c <= costs[j]

\* np.argmin(costs): the 0-based position of the first minimum.
ArgMin(costs) == (CHOOSE j \in DOMAIN costs :
                     /\ costs[j] = MinOf(costs)
                     /\ \A j2 \in DOMAIN costs : j2 < j => costs[j2] # MinOf(costs)) - 1

\* Cells with n = 0 or k = 0 among the cells read.
ZeroCells(cells) == {c \in cells : c[1] = 0 \/ c[2] = 0}

Raise(e) ==
    /\ pc' = "raised"
    /\ err' = e

\* ------------------------------------------------- integer_partition
Inputs(lo, hi) == UNION {[1..m -> lo..hi] : m \in 0..MaxN}

InitPartition ==
    /\ arg \in Inputs(0, MaxVal)
    /\ S = arg
    /\ K \in (-MaxNegK)..MaxK
    /\ N = 0
    /\ M = <<>>
    /\ dividers = <<>>
    /\ traceback = <<>>
    /\ n = 0
    /\ k = 0
    /\ partition = <<>>
    /\ ranges = <<>>
    /\ subset = <<>>
    /\ ret = ""
    /\ pc = "alloc"
    /\ err = ""
    /\ written = {}
    /\ zeroReads = {}

\* lines 20-24: N = len(S); S = [0] + S; M, dividers = np.zeros((N+1, K+1))
Alloc ==
    /\ pc = "alloc"
    /\ N' = Len(S)
    /\ S' = <<0>> \o S
    /\ IF K + 1 < 0
       THEN /\ Raise("ValueError")
            /\ UNCHANGED <<M, dividers>>
       ELSE /\ M' = [c \in Cells(Len(S) + 1, K + 1) |-> 0]
            /\ dividers' = [c \in Cells(Len(S) + 1, K + 1) |-> 0]
            /\ pc' = "row1"
            /\ err' = err
    /\ UNCHANGED <<arg, ret, K, traceback, n, k, partition, ranges, subset,
                   written, zeroReads>>

\* line 27: M[1, :] = S[1]
Row1 ==
    /\ pc = "row1"
    /\ IF N < 1
       THEN /\ Raise("IndexError")
            /\ UNCHANGED <<M, written>>
       ELSE /\ M' = [c \in DOMAIN M |-> IF c[1] = 1 THEN At(S, 1) ELSE M[c]]
            /\ written' = written \cup {c \in DOMAIN M : c[1] = 1}
            /\ pc' = "col1"
            /\ err' = err
    /\ UNCHANGED <<arg, ret, S, K, N, dividers, traceback, n, k, partition, ranges,
                   subset, zeroReads>>

\* line 28: M[:, 1] = np.cumsum(S)
Col1 ==
    /\ pc = "col1"
    /\ IF NpIndex(1, K + 1) = -1
       THEN /\ Raise("IndexError")
            /\ UNCHANGED <<M, written>>
       ELSE /\ M' = [c \in DOMAIN M |-> IF c[2] = 1 THEN CumSum(S, c[1]) ELSE M[c]]
            /\ written' = written \cup {c \in DOMAIN M : c[2] = 1}
            /\ pc' = "debug"
            /\ err' = err
    /\ UNCHANGED <<arg, ret, S, K, N, dividers, traceback, n, k, partition, ranges,
                   subset, zeroReads>>

\* lines 32-35: column 0 := S, then row 0 := range(0, K+1), in M and dividers
DebugFill(t) ==
    [c \in DOMAIN t |-> IF c[1] = 0 THEN c[2]
                        ELSE IF c[2] = 0 THEN At(S, c[1])
                        ELSE t[c]]

\* lines 32-35, then the loop heads of lines 55-56
Debug ==
    /\ pc = "debug"
    /\ M' = DebugFill(M)
    /\ dividers' = DebugFill(dividers)
    /\ written' = written \cup ZeroCells(DOMAIN M)
    /\ n' = 2
    /\ k' = 2
    /\ pc' = "recur"
    /\ UNCHANGED <<arg, ret, S, K, N, traceback, partition, ranges, subset, err,
                   zeroReads>>

\* lines 67-70: costs[i-1] = max(M[i, k-1], np.sum(S[i+1:n+1])) for i in 1..n
Costs(nn, kk) ==
    [i \in 1..nn |-> Max2(M[<<i, kk - 1>>], SumSeq(Slice(S, i + 1, nn + 1)))]

\* line 73: dividers[n, k] = np.argmin(costs) + 1
Divider(costs) == ArgMin(costs) + 1

\* lines 55-73: one iteration of the inner loop body, for the cell (n, k)
Cell ==
    /\ pc = "recur"
    /\ n <= N
    /\ K >= 2
    /\ M' = [M EXCEPT ![<<n, k>>] = MinOf(Costs(n, k))]
    /\ dividers' = [dividers EXCEPT ![<<n, k>>] = Divider(Costs(n, k))]
    /\ written' = written \cup {<<n, k>>}
    /\ zeroReads' = zeroReads \cup ZeroCells({<<i, k - 1>> : i \in 1..n})
    /\ IF k < K
       THEN /\ k' = k + 1
            /\ n' = n
       ELSE /\ k' = 2
            /\ n' = n + 1
    /\ UNCHANGED <<arg, ret, S, K, N, traceback, partition, ranges, subset, pc, err>>

\* lines 55-56 exhausted, then lines 76-78: partition = []; n = N; k = K
TraceStart ==
    /\ pc = "recur"
    /\ (n > N \/ K < 2)
    /\ partition' = <<>>
    /\ ranges' = <<>>
    /\ n' = N
    /\ k' = K
    /\ pc' = "trace"
    /\ UNCHANGED <<arg, ret, S, K, N, M, dividers, traceback, subset, err, written,
                   zeroReads>>

\* A faulty line 81: the range is put in front of the list (left-to-right order).
EmitFirst(p, seg) == <<seg>> \o p

\* line 81: partition.append(seg)
Emit(p, seg) == Append(p, seg)

\* lines 79-83: one iteration of the traceback loop
TraceStep ==
    /\ pc = "trace"
    /\ k > 0
    /\ IF NpCell(n, k, N + 1, K + 1) = <<-1, -1>>
       THEN /\ Raise("IndexError")
            /\ UNCHANGED <<n, k, partition, ranges, zeroReads>>
       ELSE LET i == dividers[NpCell(n, k, N + 1, K + 1)]
            IN  /\ partition' = Emit(partition, Slice(S, i + 1, n + 1))
                /\ ranges' = Emit(ranges, <<i + 1, n>>)
                /\ zeroReads' = zeroReads \cup ZeroCells({<<n, k>>})
                /\ n' = i
                /\ k' = k - 1
                /\ pc' = pc
                /\ err' = err
    /\ UNCHANGED <<arg, ret, S, K, N, M, dividers, traceback, subset, written>>

\* line 79 false, line 85: return partition
Return ==
    /\ pc = "trace"
    /\ k <= 0
    /\ pc' = "done"
    /\ ret' = "partition"
    /\ UNCHANGED <<arg, S, K, N, M, dividers, traceback, n, k, partition,
                   ranges, subset, err, written, zeroReads>>

NextPartition ==
    \/ Alloc
    \/ Row1
    \/ Col1
    \/ Debug
    \/ Cell
    \/ TraceStart
    \/ TraceStep
    \/ Return

SpecPartition == InitPartition /\ [][NextPartition]_vars

\* ------------------------------------------------------- subset_sum
InitSubset ==
    /\ arg \in Inputs(-MaxNeg, MaxVal)
    /\ S = arg
    /\ K \in (-MaxNegK)..MaxK
    /\ N = 0
    /\ M = <<>>
    /\ dividers = <<>>
    /\ traceback = <<>>
    /\ n = 0
    /\ k = 0
    /\ partition = <<>>
    /\ ranges = <<>>
    /\ subset = <<>>
    /\ ret = ""
    /\ pc = "s_alloc"
    /\ err = ""
    /\ written = {}
    /\ zeroReads = {}

\* lines 15-31: N = len(S); M = np.zeros(.., bool); traceback = np.zeros(.., int)
SAlloc ==
    /\ pc = "s_alloc"
    /\ N' = Len(S)
    /\ IF K + 1 < 0
       THEN /\ Raise("ValueError")
            /\ UNCHANGED <<M, traceback>>
       ELSE /\ M' = [c \in Cells(Len(S) + 1, K + 1) |-> FALSE]
            /\ traceback' = [c \in Cells(Len(S) + 1, K + 1) |-> 0]
            /\ pc' = "s_boundary"
            /\ err' = err
    /\ UNCHANGED <<arg, ret, S, K, dividers, n, k, partition, ranges, subset,
                   written, zeroReads>>

\* lines 34-36: M[0, 0] = True; M[1:, 0] = True; M[0, 1:] = False
BoundaryFill(t) ==
    [c \in DOMAIN t |-> IF c[2] = 0 THEN TRUE
                        ELSE IF c[1] = 0 THEN FALSE
                        ELSE t[c]]

\* lines 34-36, then the loop heads of lines 39-40
SBoundary ==
    /\ pc = "s_boundary"
    /\ IF NpCell(0, 0, N + 1, K + 1) = <<-1, -1>>
       THEN /\ Raise("IndexError")
            /\ UNCHANGED <<M, written, n, k>>
       ELSE /\ M' = BoundaryFill(M)
            /\ written' = written \cup ZeroCells(DOMAIN M)
            /\ n' = 1
            /\ k' = 1
            /\ pc' = "s_recur"
            /\ err' = err
    /\ UNCHANGED <<arg, ret, S, K, N, dividers, traceback, partition, ranges,
                   subset, zeroReads>>

\* A faulty line 42: the cell does not inherit M[n-1, k].
CarryDropped(nn, kk) == FALSE

\* line 42: M[n, k] = M[n-1, k]
Carry(nn, kk) == M[<<nn - 1, kk>>]

\* line 47: traceback[n, k] = S[n-1]
Included(nn) == At(S, nn - 1)

\* lines 39-47: one iteration of the inner loop body, for the cell (n, k)
SCell ==
    /\ pc = "s_recur"
    /\ n <= N
    /\ K >= 1
    /\ written' = written \cup {<<n, k>>}
    /\ IF k >= At(S, n - 1)
       THEN LET c == NpCell(n - 1, k - At(S, n - 1), N + 1, K + 1)
            IN  IF c = <<-1, -1>>
                THEN /\ M' = [M EXCEPT ![<<n, k>>] = Carry(n, k)]
                     /\ Raise("IndexError")
                     /\ UNCHANGED <<traceback, n, k>>
                ELSE /\ M' = [M EXCEPT ![<<n, k>>] = IF M[c] THEN TRUE ELSE Carry(n, k)]
                     /\ traceback' = [traceback EXCEPT ![<<n, k>>] =
                                         IF M[c] THEN Included(n) ELSE @]
                     /\ IF k < K
                        THEN /\ k' = k + 1
                             /\ n' = n
                        ELSE /\ k' = 1
                             /\ n' = n + 1
                     /\ UNCHANGED <<pc, err>>
       ELSE /\ M' = [M EXCEPT ![<<n, k>>] = Carry(n, k)]
            /\ IF k < K
               THEN /\ k' = k + 1
                    /\ n' = n
               ELSE /\ k' = 1
                    /\ n' = n + 1
            /\ UNCHANGED <<traceback, pc, err>>
    /\ UNCHANGED <<arg, ret, S, K, N, dividers, partition, ranges, subset, zeroReads>>

\* lines 39-40 exhausted, then lines 50-55: return None, or subset = []; k = K
SCheck ==
    /\ pc = "s_recur"
    /\ (n > N \/ K < 1)
    /\ IF ~M[NpCell(N, K, N + 1, K + 1)]
       THEN /\ ret' = "None"
            /\ pc' = "done"
            /\ UNCHANGED <<n, k, subset>>
       ELSE /\ subset' = <<>>
            /\ k' = K
            /\ n' = N
            /\ pc' = "s_trace"
            /\ ret' = ret
    /\ UNCHANGED <<arg, S, K, N, M, dividers, traceback, partition, ranges,
                   err, written, zeroReads>>

\* A faulty line 58: the running target is not decremented.
RemainingKept(kk, t) == kk

\* line 58: k -= traceback[n, k]
Remaining(kk, t) == kk - t

\* lines 55-58: one iteration of the traceback loop
STrace ==
    /\ pc = "s_trace"
    /\ n >= 1
    /\ IF NpCell(n, k, N + 1, K + 1) = <<-1, -1>>
       THEN /\ Raise("IndexError")
            /\ UNCHANGED <<n, k, subset>>
       ELSE LET t == traceback[NpCell(n, k, N + 1, K + 1)]
            IN  /\ IF t > 0
                   THEN /\ subset' = Append(subset, t)
                        /\ k' = Remaining(k, t)
                   ELSE UNCHANGED <<subset, k>>
                /\ n' = n - 1
                /\ UNCHANGED <<pc, err>>
    /\ UNCHANGED <<arg, ret, S, K, N, M, dividers, traceback, partition, ranges,
                   written, zeroReads>>

\* line 55 exhausted, line 60: return subset
SReturn ==
    /\ pc = "s_trace"
    /\ n < 1
    /\ pc' = "done"
    /\ ret' = "subset"
    /\ UNCHANGED <<arg, S, K, N, M, dividers, traceback, n, k, partition,
                   ranges, subset, err, written, zeroReads>>

NextSubset ==
    \/ SAlloc
    \/ SBoundary
    \/ SCell
    \/ SCheck
    \/ STrace
    \/ SReturn

SpecSubset == InitSubset /\ [][NextSubset]_vars

\* ================================================================ claims
\* Valid input of integer_partition: S non-empty (its elements are
\* non-negative by InitPartition) and K >= 1.
ValidPartitionInput == arg # <<>> /\ K >= 1

\* Valid input of subset_sum: every element positive and K >= 0.
ValidSubsetInput == K >= 0 /\ \A j \in DOMAIN arg : arg[j] > 0

Returned == pc = "done"

SetMax(X) == CHOOSE x \in X : \A y \in X : x >= y

\* The returned ranges that hold position j of S.
Holding(j) == {r \in DOMAIN ranges : ranges[r][1] <= j /\ j <= ranges[r][2]}

\* ---- integer_partition
\* C1 (as claimed): on valid input the returned ranges contain every position of
\* S exactly once (no position in two ranges, none omitted), each range holding
\* the elements of S at its positions.
C1_Coverage ==
    (ValidPartitionInput /\ Returned) =>
        /\ \A j \in 1..Len(arg) : Cardinality(Holding(j)) = 1
        /\ \A r \in DOMAIN partition :
               partition[r] = [j \in 1..Len(partition[r]) |-> arg[ranges[r][1] + j - 1]]

\* The largest range-sum of the returned partition.
ReturnedMax == SetMax({SumSeq(partition[r]) : r \in DOMAIN partition})

\* Brute force: a partition of S into at most K contiguous ranges is a set D of
\* at most K-1 cut positions (a cut at d separates positions d and d+1).
CutSets == {D \in SUBSET (1..(Len(arg) - 1)) : Cardinality(D) <= K - 1}

CutMax(D) ==
    LET last(j) == IF \E d \in D : d > j
                   THEN CHOOSE d \in D : d > j /\ \A e \in D : e > j => d <= e
                   ELSE Len(arg)
    IN  SetMax({SumSeq(SubSeq(arg, j + 1, last(j))) : j \in D \cup {0}})

\* C2 (as claimed): on valid input the largest range-sum of the returned
\* partition is at most the largest range-sum of every partition of S into at
\* most K contiguous ranges.
C2_Optimal ==
    (ValidPartitionInput /\ Returned) => \A D \in CutSets : ReturnedMax <= CutMax(D)

\* C3 (as claimed): on valid input with K >= len(S) the call returns exactly
\* len(S) ranges of one element each.
C3_Singletons ==
    (ValidPartitionInput /\ K >= Len(arg)) =>
        /\ pc # "raised"
        /\ Returned =>
               /\ Len(partition) = Len(arg)
               /\ \A r \in DOMAIN partition : Len(partition[r]) = 1

C7_Total == ValidPartitionInput => pc # "raised"

\* C9 (as claimed): with K < 1 or S empty the call never returns a partition and
\* no cell of M or of the divider table is written before the error.
C9_RejectsEarly ==
    (K < 1 \/ arg = <<>>) => (~Returned /\ written = {})

\* C10 (as claimed): on valid input neither the recurrence nor the traceback
\* reads a cell with n = 0 or k = 0 of M or of the divider table.
C10_DebugCellsUnread == ValidPartitionInput => zeroReads = {}

\* ---- subset_sum
\* How often v occurs in the list s.
Count(s, v) == Cardinality({j \in DOMAIN s : s[j] = v})

\* C5: on valid input a returned collection is a sub-collection of S (no value
\* used more often than it occurs in S), sums to K, and the traceback ends with
\* the running target k at 0.
C5_Sound ==
    (ValidSubsetInput /\ Returned /\ ret = "subset") =>
        /\ SumSeq(subset) = K
        /\ k = 0
        /\ \A j \in DOMAIN subset : Count(subset, subset[j]) <= Count(arg, subset[j])

\* A returned collection of two or more elements that leaves elements of S out.
C5_Witness ==
    /\ ValidSubsetInput
    /\ Returned
    /\ ret = "subset"
    /\ Len(subset) >= 2
    /\ Len(subset) < Len(arg)

RECURSIVE SumAt(_)
\* The sum of the elements of S at the positions I.
SumAt(I) == IF I = {} THEN 0
            ELSE LET i == CHOOSE x \in I : TRUE IN arg[i] + SumAt(I \ {i})

\* Brute force: some sub-collection of S sums to K.
Feasible == \E I \in SUBSET DOMAIN arg : SumAt(I) = K

\* C6: on valid input the call raises nothing, and it returns None exactly when
\* no sub-collection of S sums to K; otherwise it returns a collection (the
\* empty one for K = 0).
C6_Complete ==
    ValidSubsetInput =>
        /\ pc # "raised"
        /\ Returned => ((ret = "None") <=> ~Feasible)
        /\ (Returned /\ K = 0) => (ret = "subset" /\ subset = <<>>)

\* A call that returned None although S holds more than K in total.
C6_Witness ==
    /\ ValidSubsetInput
    /\ Returned
    /\ ret = "None"
    /\ SumSeq(arg) > K

\* C8 (as claimed): with K < 0 or a negative element in S the call never returns
\* (a collection or None) and writes no table cell before the error.
C8_RejectsEarly ==
    (K < 0 \/ \E j \in DOMAIN arg : arg[j] < 0) => (~Returned /\ written = {})

====
